---- MODULE Spec2Model ----
(***************************************************************************)
(* A model of src/index.js: the line-oriented JSON-RPC (MCP) server that   *)
(* exposes three Shopify operations.  The state is the input buffer, the   *)
(* suspended invocations of the async "line" handler, the documents        *)
(* written to stdout and the process status.                               *)
(*                                                                         *)
(* JavaScript values are records tagged by their type (field t); a member  *)
(* that an object does not have reads as undefined.                        *)
(***************************************************************************)
EXTENDS Integers, Sequences, FiniteSets

(* ------------------------------ bounds --------------------------------- *)

\* Number of input documents the client sends.
MaxDocs == 2

(* --------------------------- JavaScript values ------------------------- *)

Undef == [t |-> "undefined"]
Null == [t |-> "null"]
Num == [t |-> "number"]
Str(s) == [t |-> "string", s |-> s]
EmptyObj == [t |-> "object"]

\* ToBoolean(v): undefined, null and "" are falsy (Num stands for a non-zero number).
Truthy(v) == ~(v.t \in {"undefined", "null"} \/ v = Str(""))

\* typeof v
TypeOf(v) == IF v.t = "null" THEN "object" ELSE v.t

\* v.f for a v that is neither null nor undefined.
Get(v, f) == IF v.t = "object" /\ f \in DOMAIN v THEN v[f] ELSE Undef

\* a && b and a || b
AndAnd(a, b) == IF Truthy(a) THEN b ELSE a
OrOr(a, b) == IF Truthy(a) THEN a ELSE b

(* ------------------------------ messages ------------------------------- *)

\* The id of the k-th document the client sends, when that is a request:
\* a client numbers its requests.
IdOf(k) == [t |-> "number", v |-> k]

Methods ==
  {Str("initialize"), Str("tools/list"), Str("tools/call"),
   Str("notifications/initialized"), Str("foo"), Undef}

Address == EmptyObj

\* The updates member of update-order-address arguments.
NoUpdates == {Undef, Str("x")}
NoAddress == {[t |-> "object"], [t |-> "object", shippingAddress |-> Str("x")]}
DeleteArgs ==
  {Undef,
   [t |-> "object"],
   [t |-> "object", productName |-> Str("")],
   [t |-> "object", productName |-> Num],
   [t |-> "object", productName |-> Str("Widget")],
   [t |-> "object", name |-> Str("Widget")]}

\* Arguments of update-order-address: without an order identifier, with
\* orderId, with orderName (a string, or a number by mistake), with both.
UpdateArgs ==
  {Undef}
  \cup {[t |-> "object", updates |-> u] :
          u \in NoUpdates \cup {[t |-> "object"], [t |-> "object", shippingAddress |-> Address]}}
  \cup {[t |-> "object", orderId |-> Str("gid"), updates |-> u] :
          u \in NoAddress \cup {[t |-> "object", billingAddress |-> Address]}}
  \cup {[t |-> "object", orderName |-> Str("#1001"), updates |-> u] :
          u \in {Undef, [t |-> "object"], [t |-> "object", shippingAddress |-> Address]}}
  \cup {[t |-> "object", orderName |-> Num, updates |-> u] :
          u \in {[t |-> "object", shippingAddress |-> Address]}}
  \cup {[t |-> "object", orderId |-> Str("gid"), orderName |-> Str("#1001"), updates |-> u] :
          u \in {[t |-> "object"], [t |-> "object", shippingAddress |-> Address]}}

ParamsValues ==
  {Undef, [t |-> "object"]}
  \cup {[t |-> "object", name |-> Str("get-products-count")],
        [t |-> "object", name |-> Str("frobnicate")]}
  \cup {[t |-> "object", name |-> Str("delete-product-by-name"), arguments |-> a] :
          a \in DeleteArgs}
  \cup {[t |-> "object", name |-> Str("update-order-address"), arguments |-> a] :
          a \in UpdateArgs}

\* The members of a JSON object document: id, method and params, each optional.
Members ==
  {[method |-> m] : m \in Methods \ {Undef, Str("tools/call")}}
  \cup {[method |-> Str("tools/call"), params |-> p] : p \in ParamsValues \ {Undef}}
  \cup {[method |-> Str("tools/call")]}

\* The requests the client may send with id i: every member list.
Requests(i) ==
  {[t |-> "object", id |-> i]}
  \cup {[t |-> "object", id |-> i, method |-> b.method] :
          b \in {x \in Members : "params" \notin DOMAIN x}}
  \cup {[t |-> "object", id |-> i, method |-> b.method, params |-> b.params] :
          b \in {x \in Members : "params" \in DOMAIN x}}

\* The notifications (no id) the client may send: one of each method, and
\* tool calls.
Notifications ==
  {[t |-> "object"]}
  \cup {[t |-> "object", method |-> m] : m \in Methods \ {Undef}}
  \cup {[t |-> "object", method |-> Str("tools/call"), params |-> p] :
          p \in {[t |-> "object", name |-> Str("get-products-count")],
                 [t |-> "object", name |-> Str("frobnicate")],
                 [t |-> "object", name |-> Str("delete-product-by-name"),
                  arguments |-> [t |-> "object", productName |-> Str("Widget")]],
                 [t |-> "object", name |-> Str("update-order-address"),
                  arguments |-> [t |-> "object", orderName |-> Str("#1001"),
                                 updates |-> [t |-> "object"]]]}}

Objects(i) == Requests(i) \cup Notifications

(* ------------------------------ JSON text ------------------------------ *)

\* The input text is a sequence of characters.  "{", "}", " " (white space),
\* "1" (a digit) and "null" are characters of the text; the member list of
\* an object (everything between its braces) is one character carrying the
\* object it denotes.
Ch(k) == [k |-> k]
Mem(o) == [k |-> "members", v |-> o]

IsWs(c) == c = Ch(" ")

\* s without its leading and trailing white space.
RECURSIVE TrimLeft(_)
TrimLeft(s) == IF s # <<>> /\ IsWs(Head(s)) THEN TrimLeft(Tail(s)) ELSE s
RECURSIVE TrimRight(_)
TrimRight(s) ==
  IF s # <<>> /\ IsWs(s[Len(s)]) THEN TrimRight(SubSeq(s, 1, Len(s) - 1)) ELSE s
Trim(s) == TrimRight(TrimLeft(s))

\* JSON.parse(text): [ok |-> FALSE] when it throws a SyntaxError, else the value.
\* White space is allowed around every token, not inside a number.
JSONparse(text) ==
  LET b == Trim(text)
      c == SelectSeq(text, LAMBDA x : ~IsWs(x))
  IN
    IF c = <<Ch("null")>> THEN [ok |-> TRUE, v |-> Null]
    ELSE IF b # <<>> /\ \A i \in 1..Len(b) : b[i] = Ch("1") THEN [ok |-> TRUE, v |-> Num]
    ELSE IF c = <<Ch("{"), Ch("}")>> THEN [ok |-> TRUE, v |-> EmptyObj]
    ELSE IF Len(c) = 3 /\ c[1] = Ch("{") /\ c[2].k = "members" /\ c[3] = Ch("}")
      THEN [ok |-> TRUE, v |-> c[2].v]
    ELSE [ok |-> FALSE]

\* The text of a value.
Text(v) ==
  IF v = Null THEN <<Ch("null")>>
  ELSE IF v = Num THEN <<Ch("1"), Ch("1")>>
  ELSE IF v = EmptyObj THEN <<Ch("{"), Ch("}")>>
  ELSE <<Ch("{"), Mem(v), Ch("}")>>

(* ------------------------------ responses ------------------------------ *)

InvalidParams == -32602
MethodNotFound == -32601
InternalError == -32603

\* The object sendResponse writes for a success and sendError for a failure:
\* one JSON document on one line of stdout.
Success(id, result) == [jsonrpc |-> "2.0", id |-> id, result |-> result]
sendError(id, code, message) ==
  [jsonrpc |-> "2.0", id |-> id, error |-> [code |-> code, message |-> message]]
sendResponse(response) == response

\* The uniform tool result: one text block.
TextResult(id, text) ==
  Success(id, [content |-> <<[type |-> "text", text |-> text]>>])

InitializeResult ==
  [protocolVersion |-> "2024-11-05",
   capabilities |-> [tools |-> EmptyObj],
   serverInfo |-> [name |-> "shopify-mcp", version |-> "1.0.0"]]

ToolsListResult ==
  [tools |-> <<"get-products-count", "delete-product-by-name", "update-order-address">>]

(* --------------------------- the remote side --------------------------- *)

\* What an external call (await fetch, then await res.json()) can deliver:
\* the JSON the remote answers with, or an exception.
Threw == [threw |-> TRUE, message |-> "fetch failed"]
Returned(data) == [threw |-> FALSE, data |-> data]

CountData == {[t |-> "object", productsCount |-> 1]}
FindData ==
  {[errors |-> <<"e">>, edges |-> <<>>],
   [errors |-> <<>>, edges |-> <<>>],
   [errors |-> <<>>, edges |-> <<"gid1", "gid2">>]}
DeleteData ==
  {[userErrors |-> <<"e">>, deletedProductId |-> Undef],
   [userErrors |-> <<>>, deletedProductId |-> Str("gid1")],
   [userErrors |-> <<>>, deletedProductId |-> Undef]}
UpdateData ==
  {[userErrors |-> <<"e">>, order |-> Null],
   [userErrors |-> <<>>, order |-> EmptyObj],
   [userErrors |-> <<>>, order |-> Null]}

RemoteData(call) ==
  CASE call = "count" -> CountData
    [] call = "find" -> FindData
    [] call = "delete" -> DeleteData
    [] call = "lookup" -> FindData
    [] call = "update" -> UpdateData

Outcomes(call) == {Threw} \cup {Returned(d) : d \in RemoteData(call)}

(* ------------------------ the "line" handler --------------------------- *)

\* One invocation of the async handler of rl.on("line") that got past
\* JSON.parse: n numbers the invocations in the order their documents were
\* completed, msg is the parsed value, pc the external call it is suspended
\* on ("done" once it has returned), loc the local it carries across that
\* await (productId, or undefined), calls the external calls it has issued
\* (calls[i] settled with got[i]) and resps the documents it has written to
\* stdout, fin how it ended.
Invocation(n, msg) ==
  [n |-> n, msg |-> msg, pc |-> "start", loc |-> Undef,
   calls |-> <<>>, got |-> <<>>, resps |-> <<>>, fin |-> ""]

\* `${v}` inside a template literal (numbers and objects by their type).
Fmt(v) == IF v.t = "string" THEN v.s ELSE v.t

Emit(h, response) == [h EXCEPT !.resps = Append(@, response)]
Finish(h, how) == [h EXCEPT !.pc = "done", !.fin = how]

\* Mutant: the return after sendError is missing, so the handler leaves the
\* switch and line 536 writes the unassigned response as well.
SendErrorNoReturn(h, code, message) ==
  Finish(Emit(Emit(h, sendError(Get(h.msg, "id"), code, message)),
              sendResponse(Success(Undef, Undef))), "sendResponse")

\* sendError(msg.id, code, message); return;
SendErrorReturn(h, code, message) ==
  Finish(Emit(h, sendError(Get(h.msg, "id"), code, message)), "sendError")

\* response = ...; break; and then line 536: sendResponse(response).
BreakSendResponse(h, response) ==
  Finish(Emit(h, sendResponse(response)), "sendResponse")

\* return; with nothing written.
ReturnSilently(h) == Finish(h, "return")

\* Mutant: the inner catch answers with an implementation-defined server
\* error code.
InnerCatchServerError(h, message) ==
  Finish(Emit(h, sendError(Get(h.msg, "id"), -32000,
                           <<"Internal error: ", message>>)), "catch")

\* The inner catch: sendError(msg.id, -32603, `Internal error: ${err.message}`).
InnerCatch(h, message) ==
  Finish(Emit(h, sendError(Get(h.msg, "id"), InternalError,
                           <<"Internal error: ", message>>)), "catch")

\* Mutant: the outer catch throws the exception on, so the promise of the
\* async handler is rejected.
OuterCatchRethrow(h) == Finish(h, "rejected")

\* The outer catch: only a diagnostic line on stderr.
OuterCatch(h) == Finish(h, "outerCatch")

\* The process after an invocation ran up to an await or to its end: the
\* promise of an invocation that ended by a throw is rejected, nothing
\* handles it, and process.on("unhandledRejection") calls process.exit(1).
StatusAfter(h) == IF h.fin = "rejected" THEN "exit1" ELSE "running"

\* await fetch(...) and await res.json(): the invocation issues the call and
\* is suspended until the remote answers or the call throws.
Await(h, call, loc) ==
  [h EXCEPT !.pc = call, !.calls = Append(@, call), !.loc = loc]

\* get-products-count, after the remote answered.
CountResume(h, o) ==
  IF o.threw THEN InnerCatch(h, o.message)
  ELSE BreakSendResponse(h, TextResult(Get(h.msg, "id"), <<"JSON", "productsCount">>))

\* delete-product-by-name up to the product search.
DeleteStart(h, args) ==
  LET productName ==
        AndAnd(args, OrOr(OrOr(Get(args, "productName"), Get(args, "name")),
                          Get(args, "product")))
  IN IF ~Truthy(productName) \/ TypeOf(productName) # "string"
       THEN SendErrorReturn(h, InvalidParams,
                            <<"Invalid arguments. Expected { productName: string }">>)
       ELSE Await(h, "find", productName)

\* Mutant: the delete mutation targets the last match of the search.
DeleteFoundLastMatch(h, o) ==
  IF o.threw THEN InnerCatch(h, o.message)
  ELSE IF Len(o.data.errors) > 0
    THEN BreakSendResponse(h, TextResult(Get(h.msg, "id"),
                                         <<"Error searching for product: ", "errors">>))
  ELSE IF Len(o.data.edges) = 0
    THEN BreakSendResponse(h, TextResult(Get(h.msg, "id"),
           <<"No product found with title exactly matching ", Fmt(h.loc)>>))
  ELSE Await(h, "delete", Str(o.data.edges[Len(o.data.edges)]))

\* Mutant: no match is reported as a protocol error.
DeleteFoundNoMatchIsError(h, o) ==
  IF o.threw THEN InnerCatch(h, o.message)
  ELSE IF Len(o.data.errors) > 0
    THEN BreakSendResponse(h, TextResult(Get(h.msg, "id"),
                                         <<"Error searching for product: ", "errors">>))
  ELSE IF Len(o.data.edges) = 0
    THEN SendErrorReturn(h, InternalError,
           <<"No product found with title exactly matching ", Fmt(h.loc)>>)
  ELSE Await(h, "delete", Str(o.data.edges[1]))

\* delete-product-by-name after the product search answered.
DeleteFound(h, o) ==
  IF o.threw THEN InnerCatch(h, o.message)
  ELSE IF Len(o.data.errors) > 0
    THEN BreakSendResponse(h, TextResult(Get(h.msg, "id"),
                                         <<"Error searching for product: ", "errors">>))
  ELSE IF Len(o.data.edges) = 0
    THEN BreakSendResponse(h, TextResult(Get(h.msg, "id"),
           <<"No product found with title exactly matching ", Fmt(h.loc)>>))
  ELSE Await(h, "delete", Str(o.data.edges[1]))

\* delete-product-by-name after the delete mutation answered.
DeleteDone(h, o) ==
  IF o.threw THEN InnerCatch(h, o.message)
  ELSE IF Len(o.data.userErrors) > 0
    THEN BreakSendResponse(h, TextResult(Get(h.msg, "id"),
                                         <<"Failed to delete product ", Fmt(h.loc)>>))
  ELSE IF Truthy(o.data.deletedProductId)
    THEN BreakSendResponse(h, TextResult(Get(h.msg, "id"),
           <<"Product deleted successfully.", Fmt(o.data.deletedProductId)>>))
  ELSE BreakSendResponse(h, TextResult(Get(h.msg, "id"), <<"Delete response: ", "JSON">>))

\* update-order-address from the check of targetOrderId on.
UpdateResolved(h, targetOrderId) ==
  LET updates == Get(Get(Get(h.msg, "params"), "arguments"), "updates")
      shipping == Get(updates, "shippingAddress")
      billing == Get(updates, "billingAddress")
      hasShipping == Truthy(shipping) /\ TypeOf(shipping) = "object"
      hasBilling == Truthy(billing) /\ TypeOf(billing) = "object"
  IN IF ~Truthy(targetOrderId)
       THEN SendErrorReturn(h, InvalidParams,
              <<"Missing order identifier. Provide either orderId (GID) or orderName.">>)
     ELSE IF ~hasShipping /\ ~hasBilling
       THEN SendErrorReturn(h, InvalidParams,
              <<"No address fields provided in updates. Provide shippingAddress and/or billingAddress.">>)
     ELSE Await(h, "update", targetOrderId)

\* The catch around findOrderIdByName: a text result, and break.
LookupCatch(h, message) ==
  BreakSendResponse(h, TextResult(Get(h.msg, "id"),
                                  <<"Error searching for order: ", message>>))

\* Mutant: the order is looked up by name whenever a name is given, with an
\* orderId or without.
UpdateStartNameFirst(h, args) ==
  LET orderId == AndAnd(args, Get(args, "orderId"))
      orderName == AndAnd(args, Get(args, "orderName"))
      updates == AndAnd(args, Get(args, "updates"))
  IN IF ~Truthy(updates) \/ TypeOf(updates) # "object"
       THEN SendErrorReturn(h, InvalidParams,
              <<"Invalid arguments. Expected { updates: { shippingAddress?: {...}, billingAddress?: {...} }, orderId?: string, orderName?: string }">>)
     ELSE IF Truthy(orderName)
       THEN IF TypeOf(orderName) # "string"
              THEN LookupCatch(h, "name.replace is not a function")
              ELSE Await(h, "lookup", orderName)
     ELSE UpdateResolved(h, orderId)

\* update-order-address up to the order lookup.
UpdateStart(h, args) ==
  LET orderId == AndAnd(args, Get(args, "orderId"))
      orderName == AndAnd(args, Get(args, "orderName"))
      updates == AndAnd(args, Get(args, "updates"))
  IN IF ~Truthy(updates) \/ TypeOf(updates) # "object"
       THEN SendErrorReturn(h, InvalidParams,
              <<"Invalid arguments. Expected { updates: { shippingAddress?: {...}, billingAddress?: {...} }, orderId?: string, orderName?: string }">>)
     ELSE IF ~Truthy(orderId) /\ Truthy(orderName)
       THEN IF TypeOf(orderName) # "string"
              THEN LookupCatch(h, "name.replace is not a function")
              ELSE Await(h, "lookup", orderName)
     ELSE UpdateResolved(h, orderId)

\* update-order-address after findOrderIdByName's call answered.
UpdateLookedUp(h, o) ==
  IF o.threw THEN LookupCatch(h, o.message)
  ELSE IF Len(o.data.errors) > 0 THEN LookupCatch(h, "Error searching for order: errors")
  ELSE IF Len(o.data.edges) = 0
    THEN BreakSendResponse(h, TextResult(Get(h.msg, "id"),
           <<"No order found with name exactly matching ", Fmt(h.loc)>>))
  ELSE UpdateResolved(h, Str(o.data.edges[1]))

\* update-order-address after the orderUpdate mutation answered.
UpdateDone(h, o) ==
  IF o.threw THEN InnerCatch(h, o.message)
  ELSE IF Len(o.data.userErrors) > 0
    THEN BreakSendResponse(h, TextResult(Get(h.msg, "id"),
                                         <<"Failed to update order ", Fmt(h.loc)>>))
  ELSE IF Truthy(o.data.order)
    THEN BreakSendResponse(h, TextResult(Get(h.msg, "id"),
                                         <<"Order updated successfully.", "JSON">>))
  ELSE BreakSendResponse(h, TextResult(Get(h.msg, "id"),
                                       <<"orderUpdate response: ", "JSON">>))

\* The unknown-tool branch of tools/call.
UnknownTool(h, name) ==
  SendErrorReturn(h, InvalidParams, <<"Unknown tool: ", Fmt(name)>>)

\* case "tools/call" up to its first await.
ToolsCall(h) ==
  LET params == Get(h.msg, "params") IN
    IF params.t \in {"undefined", "null"}
      THEN InnerCatch(h, "Cannot destructure property 'name' of 'msg.params'")
    ELSE
      LET name == Get(params, "name")
          args == Get(params, "arguments")
      IN IF name = Str("get-products-count") THEN Await(h, "count", Undef)
         ELSE IF name = Str("delete-product-by-name") THEN DeleteStart(h, args)
         ELSE IF name = Str("update-order-address") THEN UpdateStart(h, args)
         ELSE UnknownTool(h, name)

\* case "notifications/initialized": return without a response.
NotificationsInitialized(h) == ReturnSilently(h)

\* Mutant: the default case answers with the code of the unknown-tool branch.
UnknownMethodInvalidParams(h) ==
  SendErrorReturn(h, InvalidParams, <<"Method not found: ", Fmt(Get(h.msg, "method"))>>)

\* The default case of the switch.
UnknownMethod(h) ==
  SendErrorReturn(h, MethodNotFound, <<"Method not found: ", Fmt(Get(h.msg, "method"))>>)

\* Mutant: tools/list names a tool only until a message has been handled
\* before the request.
SwitchListShrinks(h) ==
  LET method == Get(h.msg, "method") IN
    IF method = Str("initialize")
      THEN BreakSendResponse(h, Success(Get(h.msg, "id"), InitializeResult))
    ELSE IF method = Str("tools/list")
      THEN BreakSendResponse(h, Success(Get(h.msg, "id"),
             IF h.n = 1 THEN ToolsListResult
             ELSE [tools |-> SubSeq(ToolsListResult.tools, 1, 2)]))
    ELSE IF method = Str("tools/call") THEN ToolsCall(h)
    ELSE IF method = Str("notifications/initialized") THEN NotificationsInitialized(h)
    ELSE UnknownMethod(h)

\* The switch on msg.method, up to the first await.
Switch(h) ==
  LET method == Get(h.msg, "method") IN
    IF method = Str("initialize")
      THEN BreakSendResponse(h, Success(Get(h.msg, "id"), InitializeResult))
    ELSE IF method = Str("tools/list")
      THEN BreakSendResponse(h, Success(Get(h.msg, "id"), ToolsListResult))
    ELSE IF method = Str("tools/call") THEN ToolsCall(h)
    ELSE IF method = Str("notifications/initialized") THEN NotificationsInitialized(h)
    ELSE UnknownMethod(h)

\* Mutant: only the declared notification method is taken as a notification.
IsNotificationByMethod(msg) ==
  Get(msg, "id") = Undef /\ Get(msg, "method") = Str("notifications/initialized")

\* msg.id === undefined
IsNotification(msg) == Get(msg, "id") = Undef

\* The handler from the successful parse up to its first await: reading
\* msg.method of null throws into the outer catch; a message without id
\* returns at once.
Dispatch(h) ==
  IF h.msg.t = "null" THEN OuterCatch(h)
  ELSE IF IsNotification(h.msg) THEN ReturnSilently(h)
  ELSE Switch(h)

\* The continuation of a suspended invocation once its call has settled.
Resume(h, o) ==
  CASE h.pc = "count" -> CountResume(h, o)
    [] h.pc = "find" -> DeleteFound(h, o)
    [] h.pc = "delete" -> DeleteDone(h, o)
    [] h.pc = "lookup" -> UpdateLookedUp(h, o)
    [] h.pc = "update" -> UpdateDone(h, o)

(* ------------------------------ the client ----------------------------- *)

\* Objects the client also sends with white space before or after the text.
PaddedObjects(i) ==
  {[t |-> "object", id |-> i, method |-> Str("initialize")],
   [t |-> "object", id |-> i, method |-> Str("tools/call"),
    params |-> [t |-> "object", name |-> Str("get-products-count")]],
   [t |-> "object", method |-> Str("foo")]}

\* The documents the client may send on several lines, split at any point:
\* some objects (with and without white space around them), null, a number
\* of two digits and a text that is no JSON.
SplitDocs(k) ==
  {Text(v) : v \in PaddedObjects(IdOf(k)) \cup {Null, Num}}
  \cup {<<Ch(" ")>> \o Text(v) : v \in PaddedObjects(IdOf(k))}
  \cup {Text(v) \o <<Ch(" ")>> : v \in PaddedObjects(IdOf(k))}
  \cup {<<Ch("}")>>}

\* The documents the client may send as its k-th; those outside SplitDocs(k)
\* arrive on one line.
Docs(k) == {Text(v) : v \in Objects(IdOf(k))} \cup SplitDocs(k)

(* -------------------------------- state -------------------------------- *)

VARIABLES
  buffer,   \* let buffer: the text received since the last successful parse
  active,   \* the suspended invocations of the handler
  last,     \* history: the invocation that returned most recently, if any
  out,      \* stdout: for each document written, in order, the invocation
            \* that wrote it, its id and the member it carries beside the id
  alive,    \* "running", "exit0" after process.exit(0), "exit1" after
            \* process.exit(1)
  ninv,     \* history: the number of invocations that got past JSON.parse
  ndocs,    \* history: the number of documents the client has started to send
  since,    \* history: the lines received since the last line with which
            \* the text received parsed, one after the other
  feed      \* history: the latest document sent on more than one line: fed
            \* and pending are its parts already sent and still to send, base
            \* is the buffer it started on, started the invocations its
            \* lines started

vars == <<buffer, active, last, out, alive, ninv, ndocs, feed, since>>

NoFeed == [fed |-> <<>>, pending |-> <<>>, base |-> <<>>, started |-> <<>>]

Init ==
  /\ buffer = <<>>
  /\ active = {}
  /\ last = <<>>
  /\ out = <<>>
  /\ alive = "running"
  /\ ninv = 0
  /\ ndocs = 0
  /\ feed = NoFeed
  /\ since = <<>>

\* Mutant: the buffer is not cleared after a successful parse.
LineStepKeepsBuffer(buf, line, n) ==
  LET text == buf \o line
      p == JSONparse(text)
  IN IF p.ok
       THEN [buffer |-> text, started |-> <<Dispatch(Invocation(n, p.v))>>]
       ELSE [buffer |-> text, started |-> <<>>]

\* Mutant: the line replaces the buffer (buffer = line for buffer += line).
LineStepOverwrite(buf, line, n) ==
  IF JSONparse(line).ok
    THEN [buffer |-> <<>>, started |-> <<Dispatch(Invocation(n, JSONparse(line).v))>>]
    ELSE [buffer |-> line, started |-> <<>>]

\* The synchronous part of the handler for one line: append, parse, clear,
\* and run the handler up to its first await.
LineStep(buf, line, n) ==
  LET text == buf \o line
      p == JSONparse(text)
  IN IF p.ok
       THEN [buffer |-> <<>>, started |-> <<Dispatch(Invocation(n, p.v))>>]
       ELSE [buffer |-> text, started |-> <<>>]

\* What the invocation h, which was g before this step, wrote in the step.
Written(g, h) ==
  [i \in 1..(Len(h.resps) - Len(g.resps)) |->
     LET response == h.resps[Len(g.resps) + i] IN
       [n |-> h.n, id |-> response.id,
        member |-> IF "error" \in DOMAIN response THEN "error" ELSE "result"]]

\* rl.on("line"): the next line of input arrives.
Line(line, rest, newdoc) ==
  LET r == LineStep(buffer, line, ninv + 1) IN
    /\ alive = "running"
    /\ buffer' = r.buffer
    /\ feed' = IF newdoc /\ rest = <<>> THEN NoFeed
               ELSE IF newdoc
                 THEN [fed |-> line, pending |-> rest, base |-> buffer,
                       started |-> r.started]
                 ELSE [feed EXCEPT !.fed = @ \o line, !.pending = rest,
                                   !.started = @ \o r.started]
    /\ ndocs' = IF newdoc THEN ndocs + 1 ELSE ndocs
    /\ since' = IF JSONparse(since \o line).ok THEN <<>> ELSE since \o line
    /\ IF r.started = <<>>
         THEN UNCHANGED <<active, last, out, ninv, alive>>
         ELSE LET h == r.started[1] IN
                /\ ninv' = ninv + 1
                /\ out' = out \o Written(Invocation(h.n, h.msg), h)
                /\ alive' = StatusAfter(h)
                /\ IF h.pc = "done"
                     THEN last' = <<h>> /\ UNCHANGED active
                     ELSE active' = active \cup {h} /\ UNCHANGED last

\* The client sends the first line of a new document, or the next line of
\* the document it is sending (any split point; an empty line too).
LineArrives ==
  IF feed.pending = <<>>
    THEN /\ ndocs < MaxDocs
         /\ \E d \in Docs(ndocs + 1) :
              \E k \in IF d \in SplitDocs(ndocs + 1) THEN 1..Len(d) ELSE {Len(d)} :
                Line(SubSeq(d, 1, k), SubSeq(d, k + 1, Len(d)), TRUE)
    ELSE \E k \in 0..Len(feed.pending) :
           Line(SubSeq(feed.pending, 1, k),
                SubSeq(feed.pending, k + 1, Len(feed.pending)), FALSE)

\* Mutant: a handler resumes although the process has ended.
SettleAfterExit(h, o) ==
  LET g == Resume([h EXCEPT !.got = Append(@, o)], o) IN
    /\ out' = out \o Written(h, g)
    /\ IF g.pc = "done"
         THEN last' = <<g>> /\ active' = active \ {h}
         ELSE active' = (active \ {h}) \cup {g} /\ UNCHANGED last
    /\ UNCHANGED <<buffer, alive, ninv, ndocs, feed, since>>

\* Mutant: the handlers are resumed in the order of their dispatch, each
\* waiting for the ones before it.
SettleInOrder(h, o) ==
  LET g == Resume([h EXCEPT !.got = Append(@, o)], o) IN
    /\ alive = "running"
    /\ \A f \in active : h.n <= f.n
    /\ out' = out \o Written(h, g)
    /\ alive' = StatusAfter(g)
    /\ IF g.pc = "done"
         THEN last' = <<g>> /\ active' = active \ {h}
         ELSE active' = (active \ {h}) \cup {g} /\ UNCHANGED last
    /\ UNCHANGED <<buffer, ninv, ndocs, feed, since>>

\* Mutant: the buffer is cleared when a handler resumes (buffer = "" put
\* after the await).
SettleClearsBuffer(h, o) ==
  LET g == Resume([h EXCEPT !.got = Append(@, o)], o) IN
    /\ alive = "running"
    /\ out' = out \o Written(h, g)
    /\ alive' = StatusAfter(g)
    /\ IF g.pc = "done"
         THEN last' = <<g>> /\ active' = active \ {h}
         ELSE active' = (active \ {h}) \cup {g} /\ UNCHANGED last
    /\ buffer' = <<>>
    /\ UNCHANGED <<ninv, ndocs, feed, since>>

\* The call a suspended invocation awaits settles with outcome o, and the
\* invocation runs on to its next await or to its end.
Settle(h, o) ==
  LET g == Resume([h EXCEPT !.got = Append(@, o)], o) IN
    /\ alive = "running"
    /\ out' = out \o Written(h, g)
    /\ alive' = StatusAfter(g)
    /\ IF g.pc = "done"
         THEN last' = <<g>> /\ active' = active \ {h}
         ELSE active' = (active \ {h}) \cup {g} /\ UNCHANGED last
    /\ UNCHANGED <<buffer, ninv, ndocs, feed, since>>

\* The awaited fetch and res.json() deliver the remote's answer.
CallReturns == \E h \in active : \E d \in RemoteData(h.pc) : Settle(h, Returned(d))

\* The awaited fetch or res.json() throws.
CallThrows == \E h \in active : Settle(h, Threw)

\* process.exit(status): the process ends and its memory is gone -- the
\* buffer, and with it the histories of the lines it was fed and of the
\* handler that returned last. What it wrote to stdout stays, and so do, as
\* a record, the invocations that were suspended: nothing resumes them.
Exit(status) ==
  /\ alive' = status
  /\ buffer' = <<>>
  /\ since' = <<>>
  /\ feed' = NoFeed
  /\ last' = <<>>
  /\ UNCHANGED <<active, out, ninv, ndocs>>

\* rl.on("close"): process.exit(0).
Close ==
  /\ alive = "running"
  /\ Exit("exit0")

\* process.on("uncaughtException"): an exception thrown outside the line
\* handler (an error event of a stream, say) ends the process with
\* process.exit(1).
UncaughtException ==
  /\ alive = "running"
  /\ Exit("exit1")

Next == LineArrives \/ CallReturns \/ CallThrows \/ Close \/ UncaughtException

Spec == Init /\ [][Next]_vars

(* ------------------------------- claims -------------------------------- *)

\* The invocations the state holds: the suspended ones and the one that
\* returned last.
Known == active \cup {last[i] : i \in DOMAIN last}
Returned1 == {last[i] : i \in DOMAIN last}

\* The documents on stdout written by invocation n.
OutOf(n) == {i \in DOMAIN out : out[i].n = n}

HasId(msg) == msg.t = "object" /\ "id" \in DOMAIN msg
MethodIs(msg, m) == msg.t = "object" /\ Get(msg, "method") = Str(m)
KnownMethods == {"initialize", "tools/list", "tools/call", "notifications/initialized"}
ToolOf(msg) == Get(Get(msg, "params"), "name")
ArgsOf(msg) == Get(Get(msg, "params"), "arguments")
IsToolCall(msg, tool) == HasId(msg) /\ MethodIs(msg, "tools/call") /\ ToolOf(msg) = Str(tool)

IsError(r, code) == "error" \in DOMAIN r /\ "result" \notin DOMAIN r /\ r.error.code = code
IsResult(r) == "result" \in DOMAIN r /\ "error" \notin DOMAIN r
IsText(r, prefix) ==
  /\ IsResult(r)
  /\ "content" \in DOMAIN r.result
  /\ Len(r.result.content) = 1
  /\ r.result.content[1].type = "text"
  /\ r.result.content[1].text[1] = prefix

\* C1 (as claimed): every message with an id whose handler has returned got
\* exactly one response, with its id -- whatever its method.
C1_EveryRequestAnswered ==
  \A h \in Returned1 :
    HasId(h.msg) =>
      /\ Len(h.resps) = 1
      /\ h.resps[1].id = h.msg.id
      /\ Cardinality({i \in OutOf(h.n) : out[i].id = h.msg.id}) = 1

\* C2: no invocation writes more than one response, on any path.
C2_AtMostOneResponse ==
  /\ \A h \in Known : Len(h.resps) <= 1
  /\ \A n \in 1..ninv : Cardinality(OutOf(n)) <= 1

\* C2 witness: an invocation whose external call threw has ended in the
\* inner catch with exactly one response on stdout.
C2_Witness ==
  \E h \in Returned1 :
    /\ h.fin = "catch" /\ h.calls # <<>>
    /\ Len(h.resps) = 1 /\ Cardinality(OutOf(h.n)) = 1

\* C3: a parsed message without id gets no response and starts no external
\* call, whatever its method.
C3_NotificationsSilent ==
  \A h \in Known :
    ~HasId(h.msg) =>
      /\ h.pc = "done"
      /\ h.resps = <<>>
      /\ h.calls = <<>>
      /\ OutOf(h.n) = {}

\* C3 witness: a tools/call notification naming a supported tool has
\* returned, with nothing written and no call made.
C3_Witness ==
  \E h \in Returned1 :
    /\ ~HasId(h.msg) /\ MethodIs(h.msg, "tools/call")
    /\ ToolOf(h.msg) = Str("delete-product-by-name")
    /\ h.resps = <<>> /\ h.calls = <<>> /\ OutOf(h.n) = {}

\* A document that parses to a request has been sent on several lines,
\* starting on an empty buffer, and its last line has arrived.
IsRequestDoc(text) == JSONparse(text).ok /\ HasId(JSONparse(text).v)
SplitDone ==
  /\ feed.fed # <<>> /\ feed.pending = <<>> /\ feed.base = <<>>
  /\ IsRequestDoc(feed.fed)

Unnumbered(hs) == [i \in DOMAIN hs |-> [hs[i] EXCEPT !.n = 0]]
IsSuffix(s, t) == Len(s) <= Len(t) /\ s = SubSeq(t, Len(t) - Len(s) + 1, Len(t))

\* C4 (as claimed): a request document sent on several lines starts the same
\* invocations, with the same responses, as the document sent on one line,
\* and leaves the same buffer, the empty one.
C4_SameOutputAndEmptyBuffer ==
  SplitDone =>
    LET whole == LineStep(<<>>, feed.fed, 0) IN
      /\ Unnumbered(feed.started) = whole.started
      /\ buffer = whole.buffer
      /\ buffer = <<>>

\* C4 (amended): the invocations and responses are the same; the buffer is
\* left holding nothing but white space that ends the document, and is empty
\* when the document does not end in white space.
C4_SameOutputBlankBuffer ==
  SplitDone =>
    LET whole == LineStep(<<>>, feed.fed, 0) IN
      /\ Unnumbered(feed.started) = whole.started
      /\ Trim(buffer) = <<>>
      /\ IsSuffix(buffer, feed.fed)
      /\ (TrimRight(feed.fed) = feed.fed => buffer = whole.buffer)

\* C4 witness: a request sent on several lines has been answered by the
\* line that completed it, and the buffer is empty.
C4_Witness ==
  /\ SplitDone
  /\ Len(feed.started) = 1
  /\ Len(feed.started[1].resps) = 1
  /\ buffer = <<>>

UnknownMethodMsg(msg) ==
  msg.t = "object" /\ Get(msg, "method") \notin {Str(m) : m \in KnownMethods}

\* C5: a message with an unknown (or no) method gets, with an id, exactly
\* one error response with code -32601 and that id; without id, no output.
C5_UnknownMethod ==
  \A h \in Known :
    UnknownMethodMsg(h.msg) =>
      /\ h.pc = "done"
      /\ h.calls = <<>>
      /\ IF HasId(h.msg)
           THEN /\ Len(h.resps) = 1
                /\ IsError(h.resps[1], MethodNotFound)
                /\ h.resps[1].id = h.msg.id
                /\ Cardinality(OutOf(h.n)) = 1
                /\ \A i \in OutOf(h.n) : out[i].member = "error" /\ out[i].id = h.msg.id
           ELSE h.resps = <<>> /\ OutOf(h.n) = {}

\* C5 witness: a request with method "foo" has been answered -32601.
C5_Witness ==
  \E h \in Returned1 :
    /\ HasId(h.msg) /\ MethodIs(h.msg, "foo")
    /\ Len(h.resps) = 1 /\ IsError(h.resps[1], MethodNotFound)
    /\ Cardinality(OutOf(h.n)) = 1

SupportedTools == {"get-products-count", "delete-product-by-name", "update-order-address"}

\* C6 (as claimed): a tools/call request naming an unsupported tool is
\* answered with the method-not-found code -32601, and calls nothing.
C6_UnknownToolMethodNotFound ==
  \A h \in Known :
    (/\ HasId(h.msg) /\ MethodIs(h.msg, "tools/call")
     /\ Get(h.msg, "params").t = "object"
     /\ ToolOf(h.msg) \notin {Str(x) : x \in SupportedTools}) =>
      /\ h.pc = "done"
      /\ h.calls = <<>>
      /\ Len(h.resps) = 1
      /\ IsError(h.resps[1], MethodNotFound)

HasAddress(updates) ==
  \E f \in {"shippingAddress", "billingAddress"} :
    Truthy(Get(updates, f)) /\ Get(updates, f).t = "object"

\* C7 (as claimed): an update-order-address request whose updates object has
\* no address object ends in an error response with code -32602, whatever
\* order identifiers it gives and whatever the order lookup returns.
C7_NoAddressInvalidParams ==
  \A h \in Returned1 :
    (/\ IsToolCall(h.msg, "update-order-address")
     /\ Get(ArgsOf(h.msg), "updates").t = "object"
     /\ ~HasAddress(Get(ArgsOf(h.msg), "updates"))) =>
      /\ Len(h.resps) = 1
      /\ IsError(h.resps[1], InvalidParams)

\* The argument validation failures the claim lists.
FailsValidation(msg) ==
  /\ HasId(msg) /\ MethodIs(msg, "tools/call")
  /\ \/ Get(msg, "params") = Undef
     \/ /\ ToolOf(msg) = Str("delete-product-by-name")
        /\ \/ ~Truthy(Get(ArgsOf(msg), "productName"))
           \/ TypeOf(Get(ArgsOf(msg), "productName")) # "string"
     \/ /\ ToolOf(msg) = Str("update-order-address")
        /\ \/ Get(ArgsOf(msg), "updates").t # "object"
           \/ ~Truthy(Get(ArgsOf(msg), "orderId")) /\ ~Truthy(Get(ArgsOf(msg), "orderName"))
           \/ ~HasAddress(Get(ArgsOf(msg), "updates"))

\* C8 (as claimed): a tools/call request that fails argument validation
\* never starts an external call and is answered with code -32602.
C8_ValidationBeforeCalls ==
  \A h \in Known :
    FailsValidation(h.msg) =>
      /\ h.calls = <<>>
      /\ h.pc = "done"
      /\ Len(h.resps) = 1
      /\ IsError(h.resps[1], InvalidParams)

\* C9 (as claimed): a request one of whose external calls threw is answered
\* with code -32603 and the exception's message (the order lookup included),
\* and the process has not exited abnormally.
C9_ThrowGivesInternalError ==
  \A h \in Returned1 :
    \A i \in DOMAIN h.got :
      h.got[i].threw =>
        /\ Len(h.resps) = 1
        /\ IsError(h.resps[1], InternalError)
        /\ h.resps[1].error.message = <<"Internal error: ", h.got[i].message>>
        /\ alive # "exit1"

\* The remote reported a failure by a call that completed: no match for
\* the product or the order, or user errors from the mutation.
BusinessFailure(h) ==
  /\ h.got # <<>> /\ Len(h.got) = Len(h.calls)
  /\ LET c == h.calls[Len(h.calls)]
         o == h.got[Len(h.got)]
     IN /\ ~o.threw
        /\ \/ c \in {"find", "lookup"} /\ o.data.errors = <<>> /\ o.data.edges = <<>>
           \/ c \in {"delete", "update"} /\ o.data.userErrors # <<>>

FailureText(call) ==
  CASE call = "find" -> "No product found with title exactly matching "
    [] call = "lookup" -> "No order found with name exactly matching "
    [] call = "delete" -> "Failed to delete product "
    [] call = "update" -> "Failed to update order "

\* C10: a failure the remote reports by a completed call is answered with a
\* success response whose single text block describes it, never an error.
C10_BusinessFailureIsText ==
  \A h \in Known :
    BusinessFailure(h) =>
      /\ h.pc = "done"
      /\ Len(h.resps) = 1
      /\ IsText(h.resps[1], FailureText(h.calls[Len(h.calls)]))
      /\ h.resps[1].id = h.msg.id
      /\ \A i \in OutOf(h.n) : out[i].member = "result"

\* C10 witness: the product search found nothing and the request was
\* answered with the text "No product found ...".
C10_Witness ==
  \E h \in Returned1 :
    /\ BusinessFailure(h) /\ h.calls = <<"find">>
    /\ Len(h.resps) = 1
    /\ IsText(h.resps[1], "No product found with title exactly matching ")

\* C11 (as claimed): requests are handled strictly one at a time in arrival
\* order -- a suspended invocation is the one dispatched last (no later line
\* was dispatched while it waits), and stdout holds the responses in the
\* order in which their requests were dispatched.
C11_OneAtATimeInOrder ==
  /\ \A h \in active : h.n = ninv
  /\ \A i, j \in DOMAIN out : i < j => out[i].n <= out[j].n

ErrorCodes == {MethodNotFound, InvalidParams, InternalError}

\* The three members a well-formed response carries: the version marker,
\* the id, and either result or error -- never both, never neither.
WellFormed(r) ==
  /\ "jsonrpc" \in DOMAIN r /\ r.jsonrpc = "2.0"
  /\ "id" \in DOMAIN r
  /\ ("result" \in DOMAIN r) # ("error" \in DOMAIN r)

\* C12: every response an invocation writes carries exactly one of result
\* and error, the version marker "2.0" and the id of the request being
\* handled; the code of an error is -32601, -32602 or -32603.
C12_ResponseShape ==
  /\ \A h \in Known : \A i \in DOMAIN h.resps :
       LET r == h.resps[i] IN
         /\ WellFormed(r)
         /\ r.id = Get(h.msg, "id")
         /\ "error" \in DOMAIN r => r.error.code \in ErrorCodes
  /\ \A i \in DOMAIN out : \A h \in Known :
       h.n = out[i].n => out[i].id = Get(h.msg, "id")

\* C12 witness: stdout holds an error and a success, one with code -32603
\* written after an external call threw, each with the id of its request.
C12_Witness ==
  /\ \E h \in Returned1 :
       /\ h.fin = "catch" /\ h.calls # <<>> /\ Len(h.resps) = 1
       /\ IsError(h.resps[1], InternalError)
       /\ h.resps[1].id = h.msg.id
       /\ h.resps[1].jsonrpc = "2.0"
  /\ \E i, j \in DOMAIN out : out[i].member = "error" /\ out[j].member = "result"

\* C13: the process ends with status 0 exactly in the step in which the
\* input stream closes and with status 1 exactly in the step of an uncaught
\* exception outside the line handler; no step of a handler -- whatever fails
\* inside it -- ends the process, and an ended process stays ended.
C13_ExitStatus ==
  [][/\ (alive = "running" /\ alive' = "exit0") <=> Close
     /\ (alive = "running" /\ alive' = "exit1") <=> UncaughtException
     /\ alive # "running" => alive' = alive]_vars

\* C13 witness: the process has ended with status 1 after both requests
\* were answered with an error, neither of which ended it.
C13_Witness ==
  /\ alive = "exit1"
  /\ ninv = 2 /\ active = {}
  /\ \A i \in DOMAIN out : out[i].member = "error"
  /\ {out[i].n : i \in DOMAIN out} = {1, 2}

\* C14: after every line the buffer is empty when the text received since
\* the last successful parse parsed with that line (whatever value it parsed
\* to), and otherwise is that text, which does not parse; a line that leaves
\* text in the buffer writes no response, starts no invocation and leaves
\* the process running.
C14_BufferAfterLine ==
  /\ [](buffer = since /\ (buffer # <<>> => ~JSONparse(buffer).ok))
  /\ [][(buffer' # buffer /\ buffer' # <<>>) =>
          (out' = out /\ ninv' = ninv /\ active' = active /\ alive' = "running")]_vars

\* C14 witness: the buffer holds what an earlier document left in it and the
\* first line of the next one, nothing has been written, and the process
\* runs.
C14_Witness ==
  /\ feed.base # <<>> /\ feed.fed # <<>>
  /\ buffer = feed.base \o feed.fed
  /\ out = <<>> /\ alive = "running"

\* The positions at which invocation h issued the external call named call.
CallsOf(h, call) == {i \in DOMAIN h.calls : h.calls[i] = call}

\* The product search of h answered with at least one match and no errors.
SearchMatched(h) ==
  /\ Len(h.got) >= 1 /\ h.calls[1] = "find"
  /\ ~h.got[1].threw
  /\ h.got[1].data.errors = <<>>
  /\ h.got[1].data.edges # <<>>

\* C15: the delete call is issued only by a delete-product-by-name request
\* whose product search has answered with at least one match and no errors,
\* at most once, as the call after the search, for the id of the first
\* match; after a search that failed or matched nothing it is never issued.
C15_DeleteOnlyAfterMatch ==
  \A h \in Known :
    /\ CallsOf(h, "delete") # {} =>
         /\ IsToolCall(h.msg, "delete-product-by-name")
         /\ CallsOf(h, "delete") = {2}
         /\ SearchMatched(h)
         /\ h.loc = Str(h.got[1].data.edges[1])
    /\ (IsToolCall(h.msg, "delete-product-by-name") /\ Len(h.got) >= 1
        /\ ~SearchMatched(h)) =>
         (h.calls = <<"find">> /\ h.pc = "done")

\* C15 witness: the search answered with two matches and the delete call
\* was issued, once, for the first of them.
C15_Witness ==
  \E h \in Returned1 :
    /\ h.calls = <<"find", "delete">>
    /\ Len(h.got[1].data.edges) = 2
    /\ h.loc = Str(h.got[1].data.edges[1])
    /\ Len(h.resps) = 1

OrderIdOf(msg) == Get(ArgsOf(msg), "orderId")
OrderNameOf(msg) == Get(ArgsOf(msg), "orderName")
UpdatesOf(msg) == Get(ArgsOf(msg), "updates")

\* The order lookup of h answered with at least one match and no errors.
LookupMatched(h) ==
  /\ Len(h.got) >= 1 /\ h.calls[1] = "lookup"
  /\ ~h.got[1].threw
  /\ h.got[1].data.errors = <<>>
  /\ h.got[1].data.edges # <<>>

\* The part of C16 about the order-update call: it is issued at most once,
\* only for a resolved target -- the orderId supplied, or else the first
\* match of a lookup that succeeded -- and never after a lookup that failed
\* or matched nothing; with an orderId supplied there is no lookup.
UpdateCallRules(h) ==
  /\ Cardinality(CallsOf(h, "update")) <= 1
  /\ Cardinality(CallsOf(h, "lookup")) <= 1
  /\ CallsOf(h, "update") # {} =>
       \/ /\ Truthy(OrderIdOf(h.msg))
          /\ h.calls = <<"update">> /\ h.loc = OrderIdOf(h.msg)
       \/ /\ ~Truthy(OrderIdOf(h.msg))
          /\ h.calls = <<"lookup", "update">> /\ LookupMatched(h)
          /\ h.loc = Str(h.got[1].data.edges[1])
  /\ (CallsOf(h, "lookup") # {} /\ Len(h.got) >= 1 /\ ~LookupMatched(h)) =>
       (h.calls = <<"lookup">> /\ h.pc = "done")
  /\ Truthy(OrderIdOf(h.msg)) => CallsOf(h, "lookup") = {}

\* C16 (as claimed): an update-order-address request issues the order lookup
\* call if and only if orderId is absent and orderName is present, and its
\* order-update call follows the rules above.
C16_LookupIffNameOnly ==
  \A h \in Known :
    IsToolCall(h.msg, "update-order-address") =>
      /\ CallsOf(h, "lookup") # {} <=>
           (~Truthy(OrderIdOf(h.msg)) /\ Truthy(OrderNameOf(h.msg)))
      /\ UpdateCallRules(h)

\* C16 (amended): the lookup call is issued if and only if updates is an
\* object, orderId is absent and orderName is a non-empty string; the
\* order-update call follows the rules above, and no other request issues
\* either call.
C16_LookupIffValidNameOnly ==
  \A h \in Known :
    /\ IsToolCall(h.msg, "update-order-address") =>
         /\ CallsOf(h, "lookup") # {} <=>
              /\ Truthy(UpdatesOf(h.msg)) /\ TypeOf(UpdatesOf(h.msg)) = "object"
              /\ ~Truthy(OrderIdOf(h.msg))
              /\ Truthy(OrderNameOf(h.msg)) /\ TypeOf(OrderNameOf(h.msg)) = "string"
         /\ UpdateCallRules(h)
    /\ CallsOf(h, "lookup") \cup CallsOf(h, "update") # {} =>
         IsToolCall(h.msg, "update-order-address")

\* C16 witness: a request with orderName only was looked up, the lookup
\* matched, and the order-update call was issued once for the first match,
\* while a request with both orderId and orderName is at its order-update
\* call with no lookup made.
C16_Witness ==
  /\ \E h \in Returned1 :
       /\ h.calls = <<"lookup", "update">> /\ LookupMatched(h)
       /\ h.loc = Str(h.got[1].data.edges[1])
  /\ \E h \in active :
       /\ Truthy(OrderIdOf(h.msg)) /\ Truthy(OrderNameOf(h.msg))
       /\ h.calls = <<"update">>

\* C17: only a line event touches the buffer -- the step in which a
\* suspended handler resumes leaves it as it is -- and a line that arrives
\* while handlers are suspended leaves each of them, its request message
\* included, as it is; the message of an invocation never changes.
C17_BufferOnlyInLinePrefix ==
  [][/\ (ninv' = ninv /\ active' # active) => buffer' = buffer
     /\ (ninv' # ninv \/ buffer' # buffer) => active \subseteq active'
     /\ \A h \in active : \A g \in Known' : g.n = h.n => g.msg = h.msg]_vars

\* C17 witness: a handler has resumed and answered its request while the
\* buffer holds the first lines of a document that is still being sent.
C17_Witness ==
  /\ buffer # <<>> /\ feed.fed # <<>> /\ feed.pending # <<>>
  /\ \E h \in Returned1 : Len(h.got) >= 1 /\ Len(h.resps) = 1

\* C18: an initialize or tools/list request is answered in the step that
\* dispatches it, without an external call, and its result is one fixed
\* value -- the server description, or the list naming the same three tools
\* -- whatever was handled before and whatever the remote answered; only
\* the id differs between two such responses.
C18_StaticResults ==
  \A h \in Known :
    /\ (HasId(h.msg) /\ MethodIs(h.msg, "initialize")) =>
         /\ h.pc = "done" /\ h.calls = <<>>
         /\ h.resps =
              <<[jsonrpc |-> "2.0", id |-> h.msg.id,
                 result |-> [protocolVersion |-> "2024-11-05",
                             capabilities |-> [tools |-> [t |-> "object"]],
                             serverInfo |-> [name |-> "shopify-mcp",
                                             version |-> "1.0.0"]]]>>
    /\ (HasId(h.msg) /\ MethodIs(h.msg, "tools/list")) =>
         /\ h.pc = "done" /\ h.calls = <<>>
         /\ h.resps =
              <<[jsonrpc |-> "2.0", id |-> h.msg.id,
                 result |-> [tools |-> <<"get-products-count",
                                         "delete-product-by-name",
                                         "update-order-address">>]]>>

\* C18 witness: a tools/list request handled second, while the external
\* call of the first request is pending, got the list of the three tools.
C18_Witness ==
  \E h \in Returned1 :
    /\ HasId(h.msg) /\ MethodIs(h.msg, "tools/list") /\ h.n = 2
    /\ Len(h.resps) = 1 /\ Len(h.resps[1].result.tools) = 3
    /\ \E g \in active : g.n = 1 /\ g.calls # <<>>

\* C19: a pending external call holds back nothing but its own request --
\* while the process runs, every suspended invocation can go on as soon as
\* its own call settles, whichever other invocations are suspended, and a
\* request answered without a suspension is answered in the step that
\* dispatches it; so stdout is not bound to the order of arrival.
C19_PendingCallBlocksOnlyItself ==
  /\ alive = "running" =>
       \A h \in active :
         /\ ENABLED Settle(h, Threw)
         /\ \A d \in RemoteData(h.pc) : ENABLED Settle(h, Returned(d))
  /\ \A h \in Returned1 :
       (HasId(h.msg) /\ h.fin \in {"sendResponse", "sendError", "catch"}) =>
         OutOf(h.n) # {}

\* C19 witness: the second request made an external call of its own and has
\* been answered, while the first request still waits for its call and has
\* no response: stdout does not follow the order of arrival.
C19_Witness ==
  \E h \in Returned1 : \E g \in active :
    /\ g.n = 1 /\ h.n = 2
    /\ h.got # <<>> /\ OutOf(h.n) # {}
    /\ g.got = <<>> /\ OutOf(g.n) = {}

\* C20: the close of the input stream ends the process in that step, with
\* the handlers that were suspended left as they were; nothing is written
\* to stdout afterwards, so a request that was waiting for an external call
\* at the close has no response and gets none.
C20_NothingAfterClose ==
  /\ [](alive = "exit0" => \A h \in active : OutOf(h.n) = {})
  /\ [][alive = "exit0" => (out' = out /\ active' = active /\ alive' = alive)]_vars

\* C20 witness: the input stream was closed while a request was waiting for
\* its external call; the process has ended and stdout holds nothing for it.
C20_Witness ==
  /\ alive = "exit0"
  /\ \E h \in active : HasId(h.msg) /\ h.calls # <<>> /\ OutOf(h.n) = {}

====
